---- MODULE Spec2Model ----
(***************************************************************************)
(* Room/session state machine of the socket relay server                   *)
(* (src/unnamed/part_002, the TypeScript server; src/unnamed/part_001 is   *)
(* the same logic in JavaScript).                                          *)
(*                                                                         *)
(* State: the three process-wide maps activeRooms, socketToRoom and        *)
(* roomCursors, the socket.io adapter's rooms (what socket.join,           *)
(* socket.leave and socket.to(room).emit act on), the set of live sockets, *)
(* and, for observation, the events emitted by the last handler and the    *)
(* inbound event that handler served.  Every handler runs to completion on *)
(* the single event loop, so each handler is one action.                   *)
(***************************************************************************)
EXTENDS Naturals, FiniteSets, Sequences, Bags, TLC

\* ------------------------------------------------------------------ bounds
\* The number of events (inbound events and disconnections) one run of the
\* server handles; connections are bounded by the number of socket ids.
MaxEvents == 4

\* Ordinary room names clients use.
PlainRooms == {"r1", "r2"}
\* Socket ids, in the order the server hands them out.
SocketNames == <<"s1", "s2">>
Sockets == {SocketNames[i] : i \in DOMAIN SocketNames}
UserIds == {"u1"}
Positions == {"p1"}
Selections == {"sel1"}

\* The value of a payload field the client did not send, and of Map.get on a
\* missing key.  It is a Map key like any other, distinct from every string.
Undefined == "<undefined>"
\* The empty string: a room identifier a client may send.
EmptyString == ""

\* Room identifiers a client may put in a payload: ordinary names, the empty
\* string, and the id of any socket (every socket.io socket is a member of
\* the adapter room named by its own id).
RoomIds == PlainRooms \cup {EmptyString} \cup Sockets
\* What the roomId of a payload evaluates to, the missing field included.
RoomArgs == RoomIds \cup {Undefined}

\* A field of a cursor record that is not set.
Absent == "<absent>"

VARIABLES
    connected,     \* sockets whose connection handler has run and that are live
    closed,        \* sockets that have disconnected (ids are never reused)
    activeRooms,   \* Map<roomId, Set<socketId>>
    socketToRoom,  \* Map<socketId, roomId>
    roomCursors,   \* Map<roomId, Map<socketId, cursor record>>
    adapterRooms,  \* io.sockets.adapter.rooms: roomId -> sockets in the room
    emitted,       \* bag of deliveries made by the last handler
    last,          \* the inbound event the last handler served
    events,        \* number of events handled so far
    payloadRooms   \* what the roomId of an inbound payload may be in this run

stores == <<activeRooms, socketToRoom, roomCursors>>
vars == <<connected, closed, activeRooms, socketToRoom, roomCursors,
          adapterRooms, emitted, last, events, payloadRooms>>

\* ----------------------------------------------------------- JS Map, truthiness
EmptyMap == [k \in {} |-> {}]
MapHas(m, k) == k \in DOMAIN m
MapSet(m, k, v) == [x \in (DOMAIN m) \cup {k} |-> IF x = k THEN v ELSE m[x]]
MapDelete(m, k) == [x \in (DOMAIN m) \ {k} |-> m[x]]
\* Map.get for the maps whose values are strings (socketToRoom).
MapGetStr(m, k) == IF k \in DOMAIN m THEN m[k] ELSE Undefined

\* if (x) on a string-or-undefined value.
Truthy(v) == v # Undefined /\ v # EmptyString

\* ----------------------------------------------------------- socket.io adapter
AdapterJoin(rooms, r, s) == [rooms EXCEPT ![r] = @ \cup {s}]
AdapterLeave(rooms, r, s) == [rooms EXCEPT ![r] = @ \ {s}]
AdapterLeaveAll(rooms, s) == [r \in DOMAIN rooms |-> rooms[r] \ {s}]

\* socket.emit(event, data): one delivery, to the socket itself.
Delivery(to, event, data) == [to |-> to, event |-> event, data |-> data]
EmitToSelf(s, event, data) == SetToBag({Delivery(s, event, data)})
\* socket.to(room).emit(event, data): one delivery to every socket that is in
\* the adapter room, the sender excepted.
BroadcastTargets(rooms, r, s) == rooms[r] \ {s}
EmitToRoom(rooms, r, s, event, data) ==
    SetToBag({Delivery(t, event, data) : t \in BroadcastTargets(rooms, r, s)})

\* The inbound event a handler served: its name, the socket it came from, the
\* payload's roomId and flag (isCreating, isVisible), and what the stores
\* held when the handler started: the socket's registry entry and whether the
\* room was a key of activeRooms.
LastEvent(op, s, r, flag) ==
    [op |-> op, socket |-> s, roomId |-> r, flag |-> flag,
     hadEntry |-> MapHas(socketToRoom, s),
     previousRoom |-> MapGetStr(socketToRoom, s),
     roomExists |-> MapHas(activeRooms, r)]

\* No event has been handled yet.
NoEvent ==
    [op |-> "none", socket |-> Undefined, roomId |-> Undefined, flag |-> FALSE,
     hadEntry |-> FALSE, previousRoom |-> Undefined, roomExists |-> FALSE]

\* ------------------------------------------------------------------ Init
Init ==
    /\ connected = {}
    /\ closed = {}
    /\ activeRooms = EmptyMap
    /\ socketToRoom = EmptyMap
    /\ roomCursors = EmptyMap
    /\ adapterRooms = [r \in RoomArgs |-> {}]
    /\ emitted = EmptyBag
    /\ last = NoEvent
    /\ events = 0
    /\ payloadRooms = RoomIds

\* One more event is handled, while the run's budget lasts.
Counted ==
    /\ events < MaxEvents
    /\ events' = events + 1
    /\ UNCHANGED payloadRooms

\* io.on("connection"): the socket is live and in the adapter room of its id.
Connect(s) ==
    /\ s \notin connected
    /\ s \notin closed
    /\ \A i \in DOMAIN SocketNames :
          SocketNames[i] = s =>
              \A j \in 1..(i - 1) : SocketNames[j] \in connected \cup closed
    /\ connected' = connected \cup {s}
    /\ adapterRooms' = AdapterJoin(adapterRooms, s, s)
    /\ emitted' = EmptyBag
    /\ last' = LastEvent("connection", s, Undefined, FALSE)
    /\ UNCHANGED <<closed, activeRooms, socketToRoom, roomCursors, events, payloadRooms>>

\* ------------------------------------------------------------------ join-room
\* Mutant of JoinRejected: the guard tests roomExists instead of !roomExists.
JoinRejectedWrongGuard(roomExists, isCreating) == roomExists /\ ~isCreating

\* if (!roomExists && !isCreating) { emit room-not-available; return; }
JoinRejected(roomExists, isCreating) == ~roomExists /\ ~isCreating

\* "Leave previous room if any", the membership table: the socket is removed
\* from the previous room's set, and the room is dropped when the set is empty.
LeavePreviousRoom(rooms, previousRoom, s) ==
    IF Truthy(previousRoom) /\ MapHas(rooms, previousRoom)
    THEN LET roomParticipants == rooms[previousRoom] \ {s}
         IN  IF Cardinality(roomParticipants) = 0
             THEN MapDelete(rooms, previousRoom)
             ELSE MapSet(rooms, previousRoom, roomParticipants)
    ELSE rooms

\* "Leave previous room if any", the cursor store: the previous room's cursor
\* map is dropped only together with the room.
LeavePreviousCursors(cursors, rooms, previousRoom, s) ==
    IF /\ Truthy(previousRoom)
       /\ MapHas(rooms, previousRoom)
       /\ Cardinality(rooms[previousRoom] \ {s}) = 0
    THEN MapDelete(cursors, previousRoom)
    ELSE cursors

\* socket.leave(previousRoom), inside if (previousRoom).
LeavePreviousAdapter(rooms, previousRoom, s) ==
    IF Truthy(previousRoom) THEN AdapterLeave(rooms, previousRoom, s) ELSE rooms

\* if (!activeRooms.has(roomId)) activeRooms.set(roomId, new Set());
\* activeRooms.get(roomId).add(socket.id);
AddParticipant(rooms, roomId, s) ==
    MapSet(rooms, roomId,
           (IF MapHas(rooms, roomId) THEN rooms[roomId] ELSE {}) \cup {s})

\* Mutant of EnsureCursorMap: the join creates no cursor map.
EnsureCursorMapSkipped(cursors, roomId) == cursors

\* if (!roomCursors.has(roomId)) roomCursors.set(roomId, new Map());
EnsureCursorMap(cursors, roomId) ==
    IF MapHas(cursors, roomId) THEN cursors ELSE MapSet(cursors, roomId, EmptyMap)

\* socket.emit("room-joined", {roomId});
\* socket.to(roomId).emit("user-joined", {userId, socketId: socket.id});
JoinEmits(rooms, roomId, s, userId) ==
    EmitToSelf(s, "room-joined", [roomId |-> roomId])
    (+) EmitToRoom(rooms, roomId, s, "user-joined",
                   [userId |-> userId, socketId |-> s])

JoinRoom(s, roomId, userId, isCreating) ==
    LET roomExists == MapHas(activeRooms, roomId)
        previousRoom == MapGetStr(socketToRoom, s)
        adapterAfter == AdapterJoin(
            LeavePreviousAdapter(adapterRooms, previousRoom, s), roomId, s)
    IN  /\ s \in connected
        /\ Counted
        /\ last' = LastEvent("join-room", s, roomId, isCreating)
        /\ IF JoinRejected(roomExists, isCreating)
           THEN /\ emitted' = EmitToSelf(s, "room-not-available",
                                  [message |-> "Room does not exist"])
                /\ UNCHANGED <<activeRooms, socketToRoom, roomCursors,
                               adapterRooms>>
           ELSE /\ adapterRooms' = adapterAfter
                /\ socketToRoom' = MapSet(socketToRoom, s, roomId)
                /\ activeRooms' = AddParticipant(
                       LeavePreviousRoom(activeRooms, previousRoom, s),
                       roomId, s)
                /\ roomCursors' = EnsureCursorMap(
                       LeavePreviousCursors(roomCursors, activeRooms,
                                            previousRoom, s),
                       roomId)
                /\ emitted' = JoinEmits(adapterAfter, roomId, s, userId)
        /\ UNCHANGED <<connected, closed>>

\* ------------------------------------------------------------------ disconnect
\* Mutant of DisconnectRooms: the emptied room is not deleted.
DisconnectRoomsKeepsEmpty(rooms, roomId, s) ==
    IF Truthy(roomId) /\ MapHas(rooms, roomId)
    THEN MapSet(rooms, roomId, rooms[roomId] \ {s})
    ELSE rooms

\* activeRooms after the disconnect handler.
DisconnectRooms(rooms, roomId, s) ==
    IF Truthy(roomId) /\ MapHas(rooms, roomId)
    THEN LET roomParticipants == rooms[roomId] \ {s}
         IN  IF Cardinality(roomParticipants) = 0
             THEN MapDelete(rooms, roomId)
             ELSE MapSet(rooms, roomId, roomParticipants)
    ELSE rooms

\* roomCursors after the disconnect handler: the room's map goes with the
\* room; otherwise the socket's record is deleted from the room's map.
DisconnectCursors(cursors, rooms, roomId, s) ==
    IF ~Truthy(roomId) THEN cursors
    ELSE LET afterRoom ==
                 IF /\ MapHas(rooms, roomId)
                    /\ Cardinality(rooms[roomId] \ {s}) = 0
                 THEN MapDelete(cursors, roomId)
                 ELSE cursors
         IN  IF MapHas(afterRoom, roomId)
             THEN MapSet(afterRoom, roomId, MapDelete(afterRoom[roomId], s))
             ELSE afterRoom

\* socketToRoom.delete(socket.id), inside if (roomId).
DisconnectRegistry(registry, roomId, s) ==
    IF Truthy(roomId) THEN MapDelete(registry, s) ELSE registry

\* socket.to(roomId).emit("user-left", {socketId: socket.id}), inside if (roomId).
DisconnectEmits(rooms, roomId, s) ==
    IF Truthy(roomId)
    THEN EmitToRoom(rooms, roomId, s, "user-left", [socketId |-> s])
    ELSE EmptyBag

\* The transport has taken the socket out of every adapter room before the
\* "disconnect" listeners run.
Disconnect(s) ==
    LET roomId == MapGetStr(socketToRoom, s)
        adapterAfter == AdapterLeaveAll(adapterRooms, s)
    IN  /\ s \in connected
        /\ Counted
        /\ connected' = connected \ {s}
        /\ closed' = closed \cup {s}
        /\ adapterRooms' = adapterAfter
        /\ activeRooms' = DisconnectRooms(activeRooms, roomId, s)
        /\ roomCursors' = DisconnectCursors(roomCursors, activeRooms, roomId, s)
        /\ socketToRoom' = DisconnectRegistry(socketToRoom, roomId, s)
        /\ emitted' = DisconnectEmits(adapterAfter, roomId, s)
        /\ last' = LastEvent("disconnect", s, roomId, FALSE)

\* ------------------------------------------------------------------ check-room
\* Mutant of CheckRoomEmits: the answer is room-exists whatever the table says.
CheckRoomAlwaysExists(rooms, s, roomId) ==
    EmitToSelf(s, "room-exists", [roomId |-> roomId])

\* const roomExists = activeRooms.has(roomId);
\* socket.emit(roomExists ? "room-exists" : "room-not-exists", {roomId});
CheckRoomEmits(rooms, s, roomId) ==
    IF MapHas(rooms, roomId)
    THEN EmitToSelf(s, "room-exists", [roomId |-> roomId])
    ELSE EmitToSelf(s, "room-not-exists", [roomId |-> roomId])

CheckRoom(s, roomId) ==
    /\ s \in connected
    /\ Counted
    /\ emitted' = CheckRoomEmits(activeRooms, s, roomId)
    /\ last' = LastEvent("check-room", s, roomId, FALSE)
    /\ UNCHANGED <<connected, closed, activeRooms, socketToRoom, roomCursors,
                   adapterRooms>>

\* ------------------------------------------------------------------ GET /api/rooms/:roomId
\* The requester of the status route: an HTTP client, not a socket.
HttpClient == "<http>"

\* :roomId matches a non-empty path segment, so the parameter is always a
\* non-empty string.
RouteParams(rooms) == rooms \ {EmptyString, Undefined}

\* io.sockets.adapter.rooms.get(roomId): the adapter keeps a room only while it
\* has a socket.
AdapterHas(rooms, roomId) == rooms[roomId] # {}

\* (roomParticipants && roomParticipants.size > 0) ||
\* (socketRoom && socketRoom.size > 0); an undefined result is left out of the
\* JSON body.
StatusExists(table, rooms, roomId) ==
    IF MapHas(table, roomId) /\ Cardinality(table[roomId]) > 0 THEN "true"
    ELSE IF ~AdapterHas(rooms, roomId) THEN Absent
    ELSE IF Cardinality(rooms[roomId]) > 0 THEN "true" ELSE "false"

\* roomParticipants ? roomParticipants.size : socketRoom ? socketRoom.size : 0
StatusParticipantCount(table, rooms, roomId) ==
    IF MapHas(table, roomId) THEN Cardinality(table[roomId])
    ELSE IF AdapterHas(rooms, roomId) THEN Cardinality(rooms[roomId])
    ELSE 0

\* The body of res.json(...); the two key lists are kept as sets.
StatusResponse(table, rooms, roomId) ==
    [roomId |-> roomId,
     exists |-> StatusExists(table, rooms, roomId),
     participantCount |-> StatusParticipantCount(table, rooms, roomId),
     activeRooms |-> DOMAIN table,
     socketRooms |-> {r \in DOMAIN rooms : AdapterHas(rooms, r)}]

GetRoomStatus(roomId) ==
    /\ Counted
    /\ emitted' = SetToBag({Delivery(HttpClient, "GET /api/rooms/:roomId",
                       StatusResponse(activeRooms, adapterRooms, roomId))})
    /\ last' = LastEvent("room-status", HttpClient, roomId, FALSE)
    /\ UNCHANGED <<connected, closed, activeRooms, socketToRoom, roomCursors,
                   adapterRooms>>

\* ------------------------------------------------------------------ relay
\* The handlers that only forward: inbound event name -> outbound event name.
CodeEvents == {"code-changed", "input-changed", "change-language", "run-code",
               "execution-status"}
SignalingEvents == {"call-offer", "call-answer", "ice-candidate", "call-request",
                    "call-accept", "call-reject", "call-end",
                    "user-ready-for-call"}
RelayEvents == CodeEvents \cup SignalingEvents

\* Mutant of OutboundName: every event is forwarded under its inbound name.
OutboundNameUnchanged(event) == event

OutboundName(event) ==
    CASE event = "change-language" -> "language-changed"
      [] event = "run-code" -> "code-run"
      [] OTHER -> event

\* The data of the outbound event; the payload values themselves are opaque.
RelayData(event, s) ==
    CASE event = "code-changed" -> [code |-> "code"]
      [] event = "input-changed" -> [input |-> "input"]
      [] event = "change-language" -> "language"
      [] event = "run-code" -> [output |-> "output", language |-> "language",
                                input |-> "input", code |-> "code"]
      [] event = "execution-status" -> [isRunning |-> "isRunning"]
      [] event = "call-offer" -> [offer |-> "offer", fromUserId |-> "fromUserId",
                                  fromSocketId |-> s]
      [] event = "call-answer" -> [answer |-> "answer", fromUserId |-> "fromUserId",
                                   fromSocketId |-> s]
      [] event = "ice-candidate" -> [candidate |-> "candidate",
                                     fromUserId |-> "fromUserId",
                                     fromSocketId |-> s]
      [] OTHER -> [fromUserId |-> "fromUserId", fromSocketId |-> s]

\* Mutant of Relay: forwarding an event also records the payload room as the
\* sender's room.
RelayRecordsRoom(s, event, roomId) ==
    /\ s \in connected
    /\ Counted
    /\ emitted' = EmitToRoom(adapterRooms, roomId, s, OutboundName(event),
                             RelayData(event, s))
    /\ last' = LastEvent(event, s, roomId, FALSE)
    /\ socketToRoom' = MapSet(socketToRoom, s, roomId)
    /\ UNCHANGED <<connected, closed, activeRooms, roomCursors, adapterRooms>>

Relay(s, event, roomId) ==
    /\ s \in connected
    /\ Counted
    /\ emitted' = EmitToRoom(adapterRooms, roomId, s, OutboundName(event),
                             RelayData(event, s))
    /\ last' = LastEvent(event, s, roomId, FALSE)
    /\ UNCHANGED <<connected, closed, activeRooms, socketToRoom, roomCursors,
                   adapterRooms>>

\* ------------------------------------------------------------------ cursors
UserInfos == {"info"}

\* A stored cursor record; a field the handler did not write is Absent.  The
\* timestamp (Date.now()) is written with every record and read by no handler;
\* it is not kept.
CursorRecord(position, selection, isVisible, userId, userInfo) ==
    [position |-> position, selection |-> selection, isVisible |-> isVisible,
     userId |-> userId, userInfo |-> userInfo]

\* roomCursorMap.set(socket.id, {position, userId, userInfo, timestamp})
MoveRecord(position, userId, userInfo) ==
    CursorRecord(position, Absent, Absent, userId, userInfo)

\* roomCursorMap.set(socket.id, {isVisible: true, userId, userInfo, timestamp})
VisibleRecord(userId, userInfo) ==
    CursorRecord(Absent, Absent, "true", userId, userInfo)

\* currentCursor.selection = selection, when the record exists.
SelectRecord(map, s, selection) ==
    IF MapHas(map, s)
    THEN MapSet(map, s, [map[s] EXCEPT !.selection = selection])
    ELSE map

\* Mutant of CursorRelay: the event is forwarded whether or not the room has
\* a cursor map.
CursorRelayAlways(cursors, rooms, roomId, s, event, data) ==
    EmitToRoom(rooms, roomId, s, event, data)

\* if (roomCursorMap) { ... socket.to(roomId).emit(event, data); }
CursorRelay(cursors, rooms, roomId, s, event, data) ==
    IF MapHas(cursors, roomId)
    THEN EmitToRoom(rooms, roomId, s, event, data)
    ELSE EmptyBag

CursorMove(s, roomId, position, userId, userInfo) ==
    /\ s \in connected
    /\ Counted
    /\ IF MapHas(roomCursors, roomId)
       THEN /\ roomCursors' = MapSet(roomCursors, roomId,
                   MapSet(roomCursors[roomId], s,
                          MoveRecord(position, userId, userInfo)))
       ELSE UNCHANGED roomCursors
    /\ emitted' = CursorRelay(roomCursors, adapterRooms, roomId, s, "cursor-move",
                   [socketId |-> s, position |-> position, userId |-> userId,
                    userInfo |-> userInfo])
    /\ last' = LastEvent("cursor-move", s, roomId, FALSE)
    /\ UNCHANGED <<connected, closed, activeRooms, socketToRoom, adapterRooms>>

CursorSelection(s, roomId, selection, userId, userInfo) ==
    /\ s \in connected
    /\ Counted
    /\ IF MapHas(roomCursors, roomId)
       THEN /\ roomCursors' = MapSet(roomCursors, roomId,
                   SelectRecord(roomCursors[roomId], s, selection))
       ELSE UNCHANGED roomCursors
    /\ emitted' = CursorRelay(roomCursors, adapterRooms, roomId, s, "cursor-selection",
                   [socketId |-> s, selection |-> selection, userId |-> userId,
                    userInfo |-> userInfo])
    /\ last' = LastEvent("cursor-selection", s, roomId, FALSE)
    /\ UNCHANGED <<connected, closed, activeRooms, socketToRoom, adapterRooms>>

\* Mutant of VisibilityUpdate: isVisible false leaves the record in place.
VisibilityUpdateKeepsRecord(map, s, isVisible, userId, userInfo) ==
    IF isVisible THEN MapSet(map, s, VisibleRecord(userId, userInfo)) ELSE map

\* if (isVisible) roomCursorMap.set(socket.id, {...})
\* else roomCursorMap.delete(socket.id);
VisibilityUpdate(map, s, isVisible, userId, userInfo) ==
    IF isVisible
    THEN MapSet(map, s, VisibleRecord(userId, userInfo))
    ELSE MapDelete(map, s)

CursorVisibility(s, roomId, isVisible, userId, userInfo) ==
    /\ s \in connected
    /\ Counted
    /\ IF MapHas(roomCursors, roomId)
       THEN /\ roomCursors' = MapSet(roomCursors, roomId,
                   VisibilityUpdate(roomCursors[roomId], s, isVisible,
                                    userId, userInfo))
       ELSE UNCHANGED roomCursors
    /\ emitted' = CursorRelay(roomCursors, adapterRooms, roomId, s, "cursor-visibility",
                   [socketId |-> s, isVisible |-> isVisible, userId |-> userId,
                    userInfo |-> userInfo])
    /\ last' = LastEvent("cursor-visibility", s, roomId, isVisible)
    /\ UNCHANGED <<connected, closed, activeRooms, socketToRoom, adapterRooms>>

Next ==
    \/ \E s \in Sockets : Connect(s)
    \/ \E s \in Sockets, roomId \in payloadRooms, userId \in UserIds,
          isCreating \in BOOLEAN : JoinRoom(s, roomId, userId, isCreating)
    \/ \E s \in Sockets, roomId \in payloadRooms : CheckRoom(s, roomId)
    \/ \E s \in Sockets, event \in RelayEvents, roomId \in payloadRooms :
          Relay(s, event, roomId)
    \/ \E s \in Sockets, roomId \in payloadRooms, position \in Positions,
          userId \in UserIds, userInfo \in UserInfos :
          CursorMove(s, roomId, position, userId, userInfo)
    \/ \E s \in Sockets, roomId \in payloadRooms, selection \in Selections,
          userId \in UserIds, userInfo \in UserInfos :
          CursorSelection(s, roomId, selection, userId, userInfo)
    \/ \E s \in Sockets, roomId \in payloadRooms, isVisible \in BOOLEAN,
          userId \in UserIds, userInfo \in UserInfos :
          CursorVisibility(s, roomId, isVisible, userId, userInfo)
    \/ \E s \in Sockets : Disconnect(s)
    \/ \E roomId \in RouteParams(payloadRooms) : GetRoomStatus(roomId)


\* Clients send a room identifier string in every payload.
Spec == Init /\ [][Next]_vars

\* Clients may also send payloads that lack the roomId field.
InitMissingRoom ==
    /\ connected = {}
    /\ closed = {}
    /\ activeRooms = EmptyMap
    /\ socketToRoom = EmptyMap
    /\ roomCursors = EmptyMap
    /\ adapterRooms = [r \in RoomArgs |-> {}]
    /\ emitted = EmptyBag
    /\ last = NoEvent
    /\ events = 0
    /\ payloadRooms = RoomArgs

SpecMissingRoom == InitMissingRoom /\ [][Next]_vars
\* ------------------------------------------------------------------ claims
\* The member set the table holds for a room; empty when the room is no key.
Members(r) == IF MapHas(activeRooms, r) THEN activeRooms[r] ELSE {}
\* The sockets with a cursor record in a room.
CursorOwners(r) == IF MapHas(roomCursors, r) THEN DOMAIN roomCursors[r] ELSE {}
\* The room the registry gives for a socket (socketToRoom.get).
RegistryRoom(s) == MapGetStr(socketToRoom, s)
\* The last handler served a join-room request that passed the guard.
JoinedLast == last.op = "join-room" /\ (last.roomExists \/ last.flag)
\* The last handler served a join-room request that moved a socket that was
\* Joined(P) to a different room R.
SwitchedLast ==
    /\ JoinedLast
    /\ last.hadEntry
    /\ last.previousRoom \in RoomIds
    /\ last.roomId \in RoomIds
    /\ last.roomId # last.previousRoom

\* C1: a room id is a key of activeRooms if and only if its member set is
\* non-empty; no empty member set is ever left in the table.
C1_RoomExistsIffNonEmpty ==
    \A r \in RoomArgs : MapHas(activeRooms, r) <=> Members(r) # {}

\* C1 witness: a disconnect has just removed the last member of a room, and
\* the room is gone from the table.
C1_Witness ==
    /\ last.op = "disconnect"
    /\ last.roomId \in RoomIds
    /\ last.roomExists
    /\ ~MapHas(activeRooms, last.roomId)

\* C2: every connection is in the member set of at most one room, for any
\* room identifier string.
C2_AtMostOneRoom ==
    \A s \in Sockets : Cardinality({r \in RoomIds : s \in Members(r)}) <= 1

\* C3: socketToRoom maps c to r if and only if c is in activeRooms[r]; a
\* connection that never joined or that has disconnected has no entry.
\* (Stated for the room identifier strings: a registry entry counts when the
\* room it gives is one of them.)
C3_RegistryAgreesWithTable ==
    /\ \A s \in Sockets : \A r \in RoomIds :
          RegistryRoom(s) = r <=> s \in Members(r)
    /\ \A s \in Sockets \ connected : RegistryRoom(s) \notin RoomIds

\* C4: a cursor record keyed by (room, connection) exists only while the
\* connection is a member of the room.
C4_CursorOnlyForMembers ==
    \A r \in RoomIds : CursorOwners(r) \subseteq Members(r)

\* C5: right after the disconnect handler the connection is referenced by no
\* store: no member set, no registry entry, no cursor map.
\* (Stated for the room identifier strings.)
C5_DisconnectPurgesAll ==
    last.op = "disconnect" =>
        /\ \A r \in RoomIds : last.socket \notin Members(r)
        /\ RegistryRoom(last.socket) \notin RoomIds
        /\ \A r \in RoomIds : last.socket \notin CursorOwners(r)

\* C5, for the ordinary room names alone (no empty-string room involved): the
\* same statement fails through a cursor record left in a room's cursor map.
C5_DisconnectPurgesNamedRooms ==
    last.op = "disconnect" =>
        /\ \A r \in PlainRooms : last.socket \notin Members(r)
        /\ \A r \in PlainRooms : last.socket \notin CursorOwners(r)

\* C6: after a socket that is Joined(P) joins another room R, P's member set
\* and P's cursor map no longer hold the socket, and P is no key of the table
\* when it has become empty.
C6_SwitchLeavesPrevious ==
    SwitchedLast =>
        /\ last.socket \notin Members(last.previousRoom)
        /\ last.socket \notin CursorOwners(last.previousRoom)
        /\ Members(last.previousRoom) = {}
              => ~MapHas(activeRooms, last.previousRoom)

\* C6, for P among the ordinary room names: the same statement fails through
\* the cursor record the socket leaves in P when P keeps other members.
C6_SwitchLeavesNamedRoom ==
    (SwitchedLast /\ last.previousRoom \in PlainRooms) =>
        /\ last.socket \notin Members(last.previousRoom)
        /\ last.socket \notin CursorOwners(last.previousRoom)

\* C7: the switch from P to R emits user-left, carrying the socket's id, to
\* every remaining member of P.
C7_SwitchEmitsUserLeft ==
    SwitchedLast =>
        \A t \in Members(last.previousRoom) \ {last.socket} :
            CopiesIn(Delivery(t, "user-left", [socketId |-> last.socket]),
                     emitted) = 1

\* C8: a join-room request for a room that is no key of the table, with
\* isCreating false, changes no store, leaves the sender where it was, and
\* emits exactly one room-not-available, to the sender only.
C8_RejectedJoinChangesNothing ==
    [][(/\ last'.op = "join-room"
        /\ ~MapHas(activeRooms, last'.roomId)
        /\ ~last'.flag)
       => /\ UNCHANGED <<activeRooms, socketToRoom, roomCursors, adapterRooms>>
          /\ emitted' = SetToBag({Delivery(last'.socket, "room-not-available",
                                     [message |-> "Room does not exist"])})]_vars

\* C8 witness: a socket that is Joined(P) has just been refused a room that
\* does not exist.
C8_Witness ==
    /\ last.op = "join-room"
    /\ ~last.roomExists
    /\ ~last.flag
    /\ last.hadEntry
    /\ last.previousRoom \in PlainRooms
    /\ last.roomId \in RoomIds
    /\ BagCardinality(emitted) = 1

\* C9: the disconnect of a socket that is Joined(R) delivers exactly one
\* user-left, carrying its id, to each socket that remains a member of R and
\* to no other; the disconnect of an Unjoined socket emits nothing.
C9_DisconnectEmitsUserLeft ==
    last.op = "disconnect" =>
        IF last.hadEntry /\ last.previousRoom \in RoomIds
        THEN emitted = SetToBag(
                 {Delivery(t, "user-left", [socketId |-> last.socket]) :
                      t \in Members(last.previousRoom) \ {last.socket}})
        ELSE ~last.hadEntry => emitted = EmptyBag

\* C10: a join-room request for R that passes the guard makes c a member of R
\* with registry entry R, delivers exactly one room-joined{R} to c, exactly
\* one user-joined{userId, socketId: c} to every other member of R and none
\* to c, and R's member count is that of (previous members of R) with c.
C10_JoinResult ==
    [][(/\ last'.op = "join-room"
        /\ last'.roomId \in RoomIds
        /\ (MapHas(activeRooms, last'.roomId) \/ last'.flag))
       => LET c == last'.socket
              R == last'.roomId
          IN  /\ MapHas(activeRooms', R)
              /\ c \in activeRooms'[R]
              /\ MapHas(socketToRoom', c)
              /\ socketToRoom'[c] = R
              /\ CopiesIn(Delivery(c, "room-joined", [roomId |-> R]),
                          emitted') = 1
              /\ \E userId \in UserIds :
                    \A t \in activeRooms'[R] \ {c} :
                       CopiesIn(Delivery(t, "user-joined",
                                         [userId |-> userId, socketId |-> c]),
                                emitted') = 1
              /\ \A d \in BagToSet(emitted') :
                    ~(d.to = c /\ d.event = "user-joined")
              /\ Cardinality(activeRooms'[R]) = Cardinality(Members(R) \cup {c})]_vars

\* The inbound events whose handler forwards the payload to a room.
CursorEvents == {"cursor-move", "cursor-selection", "cursor-visibility"}
FanOutEvents == RelayEvents \cup CursorEvents
\* The sockets the last handler delivered something to.
Receivers == {d.to : d \in BagToSet(emitted)}

\* C11: the connections that receive a fan-out event sent by s with payload
\* room R are exactly the current members of R other than s, whether or not
\* s is a member of R.
C11_FanOutReachesExactlyMembers ==
    (last.op \in FanOutEvents /\ last.roomId \in RoomIds) =>
        Receivers = Members(last.roomId) \ {last.socket}

\* C12: a connection that has left room P receives no event relayed to P
\* until it joins P again.  A socket other than the sender that receives what
\* the last handler sent to room P is in the adapter room P; unless P is the
\* room of its own id it got there by a join-room for P, and when its registry
\* entry is no longer P it has joined another room since, without joining P
\* again.
C12_NoEventAfterLeaving ==
    (last.op \in FanOutEvents \cup {"join-room", "disconnect"}
        /\ last.roomId \in RoomIds) =>
        \A t \in Receivers \ {last.socket, last.roomId} :
            RegistryRoom(t) = last.roomId
\* C13: in every reachable state the cursor store holds a cursor map for
\* exactly the rooms that are keys of the membership table: the map comes with
\* the join that creates the room and goes in the step of the departure that
\* empties it, and no cursor event creates or deletes one.
C13_CursorMapsFollowRooms == DOMAIN roomCursors = DOMAIN activeRooms

\* A switch has emptied the previous room and created the new one: the
\* previous room's cursor map went with it and the new room has one.
C13_Witness ==
    /\ SwitchedLast
    /\ last.previousRoom \in PlainRooms
    /\ ~last.roomExists
    /\ ~MapHas(activeRooms, last.previousRoom)
    /\ ~MapHas(roomCursors, last.previousRoom)
    /\ MapHas(activeRooms, last.roomId)
    /\ MapHas(roomCursors, last.roomId)
\* The events a client sends with a payload that names a room.
InboundEvents == FanOutEvents \cup {"join-room", "check-room"}

\* C14: an inbound event whose payload lacks the room field is a silently
\* ignored no-op: it changes no store and produces no outbound event.
C14_MissingRoomIsNoOp ==
    [][(last'.op \in InboundEvents /\ last'.roomId = Undefined)
       => /\ UNCHANGED <<activeRooms, socketToRoom, roomCursors, adapterRooms>>
          /\ emitted' = EmptyBag]_vars

\* C14, the join-room part: a join-room request with no roomId, whatever its
\* isCreating, creates no room entry, no registry entry and no cursor map.
C14_MissingRoomJoinCreatesNothing ==
    [][(last'.op = "join-room" /\ last'.roomId = Undefined)
       => UNCHANGED <<activeRooms, socketToRoom, roomCursors>>]_vars

\* C14, the clean-up part: nothing keyed by a missing roomId is left behind by
\* a disconnect of the socket that sent it.
C14_DisconnectLeavesNoMissingRoom ==
    last.op = "disconnect" =>
        /\ ~MapHas(socketToRoom, last.socket)
        /\ \A r \in DOMAIN activeRooms : last.socket \notin activeRooms[r]
\* Socket s has a cursor record in room r.
HasCursor(cursors, r, s) == MapHas(cursors, r) /\ MapHas(cursors[r], s)

\* C15: a cursor-move for an existing record replaces only the position and
\* userInfo (and timestamp): a selection stored in the record is still present
\* and unchanged afterwards.
C15_MoveKeepsSelection ==
    [][(/\ last'.op = "cursor-move"
        /\ HasCursor(roomCursors, last'.roomId, last'.socket)
        /\ roomCursors[last'.roomId][last'.socket].selection # Absent)
       => /\ HasCursor(roomCursors', last'.roomId, last'.socket)
          /\ roomCursors'[last'.roomId][last'.socket].selection
                = roomCursors[last'.roomId][last'.socket].selection]_vars
\* The number of deliveries of the outbound event to socket t in a bag.
Received(bag, t, event) ==
    LET hits == {d \in BagToSet(bag) : d.to = t /\ d.event = event}
        RECURSIVE Sum(_)
        Sum(ds) == IF ds = {} THEN 0
                   ELSE LET d == CHOOSE x \in ds : TRUE
                        IN  CopiesIn(d, bag) + Sum(ds \ {d})
    IN  Sum(hits)

\* C16, the store part: a cursor-selection from c for room R changes the
\* selection of the record of (R, c) and nothing else when that record
\* exists; when none exists the cursor store is unchanged and no record is
\* created.
C16_SelectionStoreFrame ==
    [][(last'.op = "cursor-selection" /\ last'.roomId \in RoomIds)
       => LET c == last'.socket
              R == last'.roomId
          IN  IF HasCursor(roomCursors, R, c)
              THEN \E selection \in Selections :
                      roomCursors' = [roomCursors EXCEPT
                                         ![R][c].selection = selection]
              ELSE UNCHANGED roomCursors]_vars

\* C16: a cursor-selection from c for room R updates the selection (and
\* timestamp) only when a record for (R, c) exists; when none exists the
\* cursor store is unchanged, no record is created, and the event is still
\* relayed to the other members of R.
C16_SelectionOnlyOnExistingRecord ==
    [][(last'.op = "cursor-selection" /\ last'.roomId \in RoomIds)
       => LET c == last'.socket
              R == last'.roomId
          IN  IF HasCursor(roomCursors, R, c)
              THEN \E selection \in Selections :
                      roomCursors' = [roomCursors EXCEPT
                                         ![R][c].selection = selection]
              ELSE /\ UNCHANGED roomCursors
                   /\ \A t \in Members(R) \ {c} :
                         Received(emitted', t, "cursor-selection") = 1]_vars
\* C17: after a cursor-visibility with isVisible false from c for an existing
\* room R there is no cursor record for (R, c); after one with isVisible true
\* there is a record for (R, c) and it is marked visible; the records of the
\* other connections in R are unchanged in both cases.
C17_VisibilitySetsOrDeletes ==
    [][(/\ last'.op = "cursor-visibility"
        /\ last'.roomId \in RoomIds
        /\ MapHas(activeRooms, last'.roomId))
       => LET c == last'.socket
              R == last'.roomId
          IN  /\ MapHas(roomCursors, R)
              /\ MapHas(roomCursors', R)
              /\ IF last'.flag
                 THEN /\ HasCursor(roomCursors', R, c)
                      /\ roomCursors'[R][c].isVisible = "true"
                 ELSE ~HasCursor(roomCursors', R, c)
              /\ \A t \in Sockets \ {c} :
                    /\ HasCursor(roomCursors', R, t) <=> HasCursor(roomCursors, R, t)
                    /\ HasCursor(roomCursors, R, t)
                          => roomCursors'[R][t] = roomCursors[R][t]]_vars

\* A cursor-visibility with isVisible false was handled for an existing room
\* in which another connection has a cursor record.
C17_Witness ==
    /\ last.op = "cursor-visibility"
    /\ ~last.flag
    /\ last.roomId \in PlainRooms
    /\ last.roomExists
    /\ ~HasCursor(roomCursors, last.roomId, last.socket)
    /\ \E t \in Sockets \ {last.socket} : HasCursor(roomCursors, last.roomId, t)
\* C18: every fan-out event is relayed under exactly one outbound name:
\* change-language as language-changed, run-code as code-run and every other
\* one under its own name; what a cursor event delivers carries socketId, and
\* what a signaling event delivers carries fromSocketId, equal to the sender's
\* socket id.
C18_RelayNamesAndTags ==
    last.op \in FanOutEvents =>
        \A d \in BagToSet(emitted) :
            /\ d.event = (CASE last.op = "change-language" -> "language-changed"
                            [] last.op = "run-code" -> "code-run"
                            [] OTHER -> last.op)
            /\ last.op \in CursorEvents => d.data.socketId = last.socket
            /\ last.op \in SignalingEvents => d.data.fromSocketId = last.socket

\* A change-language has been relayed to another socket.
C18_Witness ==
    /\ last.op = "change-language"
    /\ last.roomId \in PlainRooms
    /\ Receivers # {}
\* C19: a check-room request for room R changes no store and emits exactly
\* one event, to the sender only: room-exists{roomId: R} if R has at least one
\* member, otherwise room-not-exists{roomId: R}; the answer is room-exists
\* exactly when the guard of a join-room with isCreating false for R would let
\* the request pass in the same state.
C19_CheckRoomAnswers ==
    [][(last'.op = "check-room" /\ last'.roomId \in RoomIds)
       => LET c == last'.socket
              R == last'.roomId
              answer == IF Members(R) # {} THEN "room-exists"
                        ELSE "room-not-exists"
          IN  /\ UNCHANGED <<activeRooms, socketToRoom, roomCursors,
                             adapterRooms>>
              /\ emitted' = SetToBag({Delivery(c, answer, [roomId |-> R])})
              /\ (answer = "room-exists")
                    <=> ~JoinRejected(MapHas(activeRooms, R), FALSE)]_vars

\* A socket that is not a member of an existing room asked for it and was
\* told that the room exists.
C19_Witness ==
    /\ last.op = "check-room"
    /\ last.roomId \in PlainRooms
    /\ last.roomExists
    /\ last.socket \notin Members(last.roomId)
    /\ emitted = SetToBag({Delivery(last.socket, "room-exists",
                                    [roomId |-> last.roomId])})
\* C20: the room status query changes no state and reports, for every room
\* identifier, exists true exactly when the room's member set in the
\* membership table is non-empty, participantCount equal to the size of that
\* member set (0 for a room that does not exist) and all the room ids of the
\* table; so for an identifier that no connection has joined, such as the id
\* of a connected socket that joined nothing, exists is not reported true and
\* participantCount is 0.
C20_StatusReportsTable ==
    [][(last'.op = "room-status")
       => /\ UNCHANGED <<connected, closed, activeRooms, socketToRoom,
                         roomCursors, adapterRooms>>
          /\ BagCardinality(emitted') = 1
          /\ \A d \in BagToSet(emitted') :
                /\ d.to = HttpClient
                /\ (d.data.exists = "true") <=> (Members(last'.roomId) # {})
                /\ d.data.participantCount = Cardinality(Members(last'.roomId))
                /\ d.data.activeRooms = DOMAIN activeRooms]_vars
\* C21: the code, input, language, run, execution-status and signaling events
\* are stateless: handling one leaves the membership table, the registry and
\* the cursor store unchanged, for any sender and any payload room.
C21_RelayIsStateless ==
    [][(last'.op \in RelayEvents)
       => UNCHANGED <<activeRooms, socketToRoom, roomCursors>>]_vars

\* A socket that is in no room has had an event forwarded to a room that has
\* members and cursor records.
C21_Witness ==
    /\ last.op \in RelayEvents
    /\ last.roomId \in PlainRooms
    /\ ~last.hadEntry
    /\ Members(last.roomId) # {}
    /\ CursorOwners(last.roomId) # {}
    /\ Receivers # {}
\* C22: a cursor-move, cursor-selection or cursor-visibility whose payload
\* room has no cursor map changes no store and is delivered to no connection,
\* although the same room may be one that the other fan-out events reach.
C22_CursorEventNeedsRoom ==
    [][(/\ last'.op \in CursorEvents
        /\ last'.roomId \in RoomIds
        /\ ~MapHas(roomCursors, last'.roomId))
       => /\ UNCHANGED <<activeRooms, socketToRoom, roomCursors, adapterRooms>>
          /\ emitted' = EmptyBag]_vars

\* A cursor event was addressed to a room without cursor map in whose adapter
\* room another connected socket sits, and nothing was delivered.
C22_Witness ==
    /\ last.op \in CursorEvents
    /\ last.roomId \in RoomIds
    /\ ~last.roomExists
    /\ ~MapHas(roomCursors, last.roomId)
    /\ adapterRooms[last.roomId] \ {last.socket} # {}
    /\ emitted = EmptyBag
\* C23: a join-room request by c for the room R it is already joined to is
\* idempotent on state: afterwards the registry still maps c to R, R has the
\* same member set as before, and every cursor record stored for R before the
\* request is still present, also when c is the only member of R.
C23_RejoinIsIdempotent ==
    [][(/\ last'.op = "join-room"
        /\ last'.roomId \in RoomIds
        /\ MapHas(socketToRoom, last'.socket)
        /\ socketToRoom[last'.socket] = last'.roomId
        /\ last'.socket \in Members(last'.roomId))
       => LET c == last'.socket
              R == last'.roomId
          IN  /\ MapHas(socketToRoom', c)
              /\ socketToRoom'[c] = R
              /\ MapHas(activeRooms', R)
              /\ activeRooms'[R] = activeRooms[R]
              /\ \A t \in CursorOwners(R) :
                    /\ HasCursor(roomCursors', R, t)
                    /\ roomCursors'[R][t] = roomCursors[R][t]]_vars
\* C23, with another member in R: the request leaves the registry entry, the
\* member set and every cursor record of R as they were.
C23_RejoinWithOthersIsIdempotent ==
    [][(/\ last'.op = "join-room"
        /\ last'.roomId \in RoomIds
        /\ MapHas(socketToRoom, last'.socket)
        /\ socketToRoom[last'.socket] = last'.roomId
        /\ last'.socket \in Members(last'.roomId)
        /\ Members(last'.roomId) # {last'.socket})
       => UNCHANGED <<activeRooms, socketToRoom, roomCursors>>]_vars
====
